---- MODULE Spec2Model ----
(***************************************************************************)
(* Model of the zombie resource pipeline (src/src/resources.js), of the    *)
(* Headers collection and the Body of the fetch module                     *)
(* (src/unnamed/part_000) and of XMLHttpRequest (src/src/xhr.js).          *)
(*                                                                         *)
(* JavaScript runs one callback chain to completion before the event loop  *)
(* takes the next one.  The variable cur holds the fetch whose synchronous *)
(* chain is running (0 when the event loop is idle); each pipeline action  *)
(* invokes exactly one handler and carries the continuation it calls up to *)
(* the next handler invocation.                                            *)
(***************************************************************************)
EXTENDS Integers, Sequences, FiniteSets, TLC

\* ------------------------------------------------------------------ bounds
MaxRequests == 1        \* request() calls per behaviour of Spec
MaxConcurrent == 2      \* request() calls per behaviour of SpecHistory
MaxCustom == 1          \* addHandler() calls per behaviour
MaxMaxRedirects == 2    \* browser.maxRedirects is drawn from 0..MaxMaxRedirects
MaxCalls == 4           \* calls of open, setRequestHeader, send and abort on the XMLHttpRequest
MaxHeaders == 3         \* pairs in the Headers collection
MaxBodies == 2          \* Body objects constructed per behaviour, the first one included
MaxAccessorCalls == 3   \* accessor calls on one Body
MaxObjects == 3         \* Request and Response objects constructed
MaxReads == 3           \* text() calls on the Request and Response objects

VARIABLES
  pipeline,      \* resources.pipeline: the handlers of this browser, in registration order
  history,       \* the Resources array: one Resource per request() call
  fetch,         \* per request() call: the continuation chain of its pipeline runs
  cur,           \* the fetch whose synchronous chain is on the stack, 0 = idle
  cookies,       \* browser.cookies (the cookie store collaborator)
  maxRedirects   \* browser.maxRedirects

pvars == <<pipeline, history, fetch, cur, cookies, maxRedirects>>

\* One XMLHttpRequest instance, and the transport under it.
VARIABLES
  readyState,    \* xhr.readyState
  pending,       \* xhr._pending: the request of the last open(), 0 for null
  requests,      \* the request objects open() created; pending and the callbacks of send() refer to them
  inflight,      \* the transport requests send() dispatched that have not completed, by request
  cors,          \* xhr._cors: the origin of the document, "" while undefined
  response,      \* xhr._response
  xhrError,      \* xhr._error
  observed       \* ghost: what the page saw of the instance

xvars == <<readyState, pending, requests, inflight, cors, response, xhrError, observed>>

\* One Headers collection of the fetch API.
VARIABLES
  hdrs,          \* headers._headers: the <<name, value>> pairs in order
  hlast          \* ghost: the last call on the collection and the pairs before it

hvars == <<hdrs, hlast>>

\* One Body (the base of Request and Response) of the fetch API.
VARIABLES
  bodyId,        \* ghost: which Body this is, counted from construction
  bstream,       \* body._stream: what is left to read, <<>> for no stream
  bcontentType,   \* the Content-Type of body.headers, "" for none
  bodyUsed,      \* body._bodyUsed
  bodyValue,     \* body.body
  accessed       \* ghost: the accessor calls on this Body, in order

bvars == <<bodyId, bstream, bcontentType, bodyUsed, bodyValue, accessed>>

\* The Request and Response objects of the fetch API a page has made.
VARIABLES
  objects,       \* the objects, in order of construction
  streams,       \* the streams their _stream fields refer to
  reads,         \* ghost: the text() calls, each with its object, stream and outcome
  made           \* ghost: the constructor calls, each with what it raised

fvars == <<objects, streams, reads, made>>

vars == <<pvars, xvars, hvars, bvars, fvars>>

\* ------------------------------------------------------------------ URLs
\* A URL is [proto, path, query]; a relative reference has proto = "".
NoUrl == [proto |-> "", path |-> "", query |-> ""]
Url(proto, path) == [proto |-> proto, path |-> path, query |-> ""]
Site == Url("http:", "/")

\* Utils.resolveHref / DOM.resourceLoader.resolve: an absolute reference
\* stands, an empty one resolves to the base, a path replaces the base's.
resolveHref(base, ref) ==
  IF ref.proto # "" THEN ref
  ELSE IF ref.path = "" THEN base
  ELSE [proto |-> base.proto, path |-> ref.path, query |-> ref.query]

\* URL.parse(url).host
HostOf(url) == IF url.proto = "http:" THEN "example.test" ELSE "null"

\* ------------------------------------------------------------------ Headers
\* String.prototype.toLowerCase on the header names the model uses.
toLowerCase(s) ==
  CASE s = "User-Agent" -> "user-agent"
    [] s = "Host" -> "host"
    [] s = "Cookie" -> "cookie"
    [] s = "Referer" -> "referer"
    [] s = "Location" -> "location"
    [] s = "Set-Cookie" -> "set-cookie"
    [] s = "Content-Type" -> "content-type"
    [] s = "Content-Length" -> "content-length"
    [] s = "Content-Transfer-Encoding" -> "content-transfer-encoding"
    [] s = "Content-Encoding" -> "content-encoding"
    [] s = "Transfer-Encoding" -> "transfer-encoding"
    [] s = "Accept" -> "accept"
    [] s = "X-Token" -> "x-token"
    [] OTHER -> s

\* method.toUpperCase() on the method names the model uses.
toUpperCase(s) ==
  CASE s = "get" -> "GET"
    [] s = "head" -> "HEAD"
    [] s = "post" -> "POST"
    [] OTHER -> s

\* A header value is a string, held as a sequence of tokens so that the
\* CR and LF characters inside it can be told apart: <<"a", "\r", "\n">>.
Str(s) == <<s>>
CR == "\r"
LF == "\n"
\* What Headers.get returns when there is no such header (null).
Null == <<"<null>">>

RECURSIVE stripCRLF(_)
\* String(value).replace(/\r\n/g, ''): every CR directly followed by LF goes.
stripCRLF(v) ==
  IF Len(v) < 2 THEN v
  ELSE IF v[1] = CR /\ v[2] = LF THEN stripCRLF(SubSeq(v, 3, Len(v)))
  ELSE <<v[1]>> \o stripCRLF(Tail(v))

HeadersAppend(hs, name, value) ==
  Append(hs, <<toLowerCase(name), stripCRLF(value)>>)

HeadersDelete(hs, name) ==
  LET ci == toLowerCase(name)
  IN SelectSeq(hs, LAMBDA h: h[1] # ci)

HeadersGetAll(hs, name) ==
  LET ci == toLowerCase(name)
      sel == SelectSeq(hs, LAMBDA h: h[1] = ci)
  IN [k \in 1..Len(sel) |-> sel[k][2]]

HeadersHas(hs, name) ==
  LET ci == toLowerCase(name)
  IN \E k \in 1..Len(hs): hs[k][1] = ci

\* get returns the value of the first match, or null.
HeadersGet(hs, name) ==
  LET ci == toLowerCase(name)
  IN IF \E k \in 1..Len(hs): hs[k][1] = ci
     THEN hs[CHOOSE k \in 1..Len(hs):
               hs[k][1] = ci /\ \A j \in 1..(k - 1): hs[j][1] # ci][2]
     ELSE Null

RECURSIVE SetReduceKeep(_, _, _, _)
\* The reduce with every match given the value and none dropped.
SetReduceKeep(hs, ci, castValue, replaced) ==
  IF hs = <<>> THEN <<>>
  ELSE IF Head(hs)[1] # ci
  THEN <<Head(hs)>> \o SetReduceKeep(Tail(hs), ci, castValue, replaced)
  ELSE <<<<ci, castValue>>>> \o SetReduceKeep(Tail(hs), ci, castValue, TRUE)

RECURSIVE SetReduce(_, _, _, _)
\* The reduce of Headers.set: the first match takes the value, later ones go.
SetReduce(hs, ci, castValue, replaced) ==
  IF hs = <<>> THEN <<>>
  ELSE IF Head(hs)[1] # ci
    THEN <<Head(hs)>> \o SetReduce(Tail(hs), ci, castValue, replaced)
  ELSE IF ~replaced
    THEN <<<<ci, castValue>>>> \o SetReduce(Tail(hs), ci, castValue, TRUE)
  ELSE SetReduce(Tail(hs), ci, castValue, replaced)

HeadersSet(hs, name, value) ==
  LET ci == toLowerCase(name)
      reduced == SetReduce(hs, ci, stripCRLF(value), FALSE)
  IN IF \E k \in 1..Len(hs): hs[k][1] = ci
     THEN reduced
     ELSE HeadersAppend(reduced, name, value)

RECURSIVE HeadersNew(_)
\* new Headers(init): appends every pair of init.
HeadersNew(init) ==
  IF init = <<>> THEN <<>>
  ELSE <<<<toLowerCase(Head(init)[1]), stripCRLF(Head(init)[2])>>>> \o HeadersNew(Tail(init))

\* Headers.toObject: a plain object, held as a set of <<name, value>>; of
\* several pairs with one name the last assigned stays.
toObject(hs) ==
  {<<hs[k][1], hs[k][2]>> : k \in {j \in 1..Len(hs): \A l \in (j + 1)..Len(hs): hs[l][1] # hs[j][1]}}

\* ------------------------------------------------------------------ records
\* A request record: req in Resources.request and redirectRequest in
\* handleResponse.  redirects = -1 and multipart = FALSE stand for undefined.
NoParams == ""
NoBody == "<undefined>"
NewRequest(method, url, headers, params, body) ==
  [method |-> method, url |-> url, headers |-> headers, params |-> params,
   body |-> body, redirects |-> -1, multipart |-> FALSE]

\* A response record.  url = NoUrl, statusCode = 0 and redirects = -1 stand
\* for undefined.  body is "gz" (compressed bytes), "bytes" (a Buffer),
\* "text" (a decoded string) or "garbled" (compressed bytes decoded as text).
NoRes == [none |-> TRUE]
NewResponse(url, statusCode, headers, body, redirects) ==
  [url |-> url, statusCode |-> statusCode, headers |-> headers, body |-> body,
   redirects |-> redirects]

NoErr == "none"

\* ------------------------------------------------------------------ handlers
\* The defaults with decodeBody registered ahead of decompressBody.
DefaultPipelineDecodeFirst ==
  <<"normalizeURL", "mergeHeaders", "createBody",
    "handleResponse", "decodeBody", "decompressBody">>

\* The default handlers, Resources.pipeline.
DefaultPipeline ==
  <<"normalizeURL", "mergeHeaders", "createBody",
    "handleResponse", "decompressBody", "decodeBody">>

\* Handlers a test can add: two request-stage and two response-stage ones.
CustomHandlers == {"reqA", "reqB", "resA", "resB"}

\* fn.length, the declared number of arguments of a handler.
Arity(h) ==
  IF h \in {"normalizeURL", "mergeHeaders", "createBody", "makeHTTPRequest", "reqA", "reqB"}
  THEN 2 ELSE 3

\* Mutant: the request handlers run last registered first.
handlersInOrderReversed(pipe) ==
  LET requestHandlers == SelectSeq(pipe, LAMBDA fn: Arity(fn) = 2)
      responseHandlers == SelectSeq(pipe, LAMBDA fn: Arity(fn) = 3)
      n == Len(requestHandlers)
  IN [k \in 1..n |-> requestHandlers[n + 1 - k]] \o <<"makeHTTPRequest">> \o responseHandlers

\* What _runPipeline passes to nextRequestHandler.
handlersInOrder(pipe) ==
  LET requestHandlers == SelectSeq(pipe, LAMBDA fn: Arity(fn) = 2)
      responseHandlers == SelectSeq(pipe, LAMBDA fn: Arity(fn) = 3)
  IN requestHandlers \o <<"makeHTTPRequest">> \o responseHandlers

\* The session configuration the handlers read from the browser.
BrowserHeaders == << <<"X-Token", Str("session")>> >>
UserAgent == Str("Zombie")

\* What a request handler hands to its continuation:
\*   kind "next"  - next()
\*   kind "res"   - next(null, res)
\*   kind "error" - next(error), or a synchronous throw
\*   kind "async" - returns without calling next; an I/O callback will
Outcome(kind, req, res, error) == [kind |-> kind, req |-> req, res |-> res, error |-> error]

normalizeURL(req) ==
  LET resolved == resolveHref(Site, req.url)
      withQuery ==
        IF req.params # NoParams /\ req.method \in {"GET", "HEAD", "DELETE"}
        THEN [resolved EXCEPT !.query = req.params]
        ELSE resolved
  IN Outcome("next", [req EXCEPT !.url = withQuery], NoRes, NoErr)

mergeHeaders(req) ==
  LET merged == HeadersAppend(req.headers, BrowserHeaders[1][1], BrowserHeaders[1][2])
      withAgent == IF ~HeadersHas(merged, "User-Agent")
                   THEN HeadersSet(merged, "User-Agent", UserAgent)
                   ELSE merged
      withHost == HeadersSet(withAgent, "Host", Str(HostOf(req.url)))
  IN Outcome("next", [req EXCEPT !.headers = withHost], NoRes, NoErr)

createBody(req) ==
  IF req.method # "POST" /\ req.method # "PUT"
  THEN Outcome("next", req, NoRes, NoErr)
  ELSE
    LET given == HeadersGet(req.headers, "content-type")
        headers == HeadersSet(req.headers, "content-type",
                     IF given = Null \/ given = <<>>
                     THEN Str("application/x-www-form-urlencoded") ELSE given)
        mimeType == HeadersGet(headers, "content-type")
        typed == [req EXCEPT !.headers = headers]
    IN IF req.body # NoBody /\ req.body # ""
       THEN Outcome("next", typed, NoRes, NoErr)
       ELSE CASE mimeType = Str("application/x-www-form-urlencoded") ->
                   Outcome("next",
                     [typed EXCEPT !.body = req.params,
                                   !.headers = HeadersSet(headers, "content-length", Str("length"))],
                     NoRes, NoErr)
              [] mimeType = Str("multipart/form-data") ->
                   IF req.params = NoParams
                   THEN Outcome("next",
                          [typed EXCEPT !.body = "",
                                        !.headers = HeadersSet(headers, "content-type", Str("text/plain"))],
                          NoRes, NoErr)
                   ELSE Outcome("next",
                          [typed EXCEPT !.multipart = TRUE,
                                        !.headers = HeadersSet(headers, "content-type",
                                                      Str("multipart/form-data; boundary"))],
                          NoRes, NoErr)
              [] mimeType = Str("text/plain") -> Outcome("next", typed, NoRes, NoErr)
              [] OTHER -> Outcome("error", typed, NoRes, "Unsupported content type")

\* cookies.serialize(hostname, pathname)
serialize(jar) == IF jar = {} THEN <<>> ELSE Str("sid=1")

\* makeHTTPRequest up to the point where it returns: a non-GET on file: is
\* answered at once, everything else waits for the file system or the wire.
makeHTTPRequest(req, jar) ==
  IF req.url.proto = "file:"
  THEN IF req.method # "GET"
       THEN Outcome("res", req, NewResponse(NoUrl, 405, <<>>, NoBody, -1), NoErr)
       ELSE Outcome("async", req, NoRes, NoErr)
  ELSE Outcome("async", [req EXCEPT !.headers = HeadersAppend(req.headers, "Cookie", serialize(jar))],
               NoRes, NoErr)

\* The reference a Location header value holds, as Utils.resolveHref reads it.
ParseRef(v) ==
  CASE v = Str("/a") -> [proto |-> "", path |-> "/a", query |-> ""]
    [] v = Str("/b") -> [proto |-> "", path |-> "/b", query |-> ""]
    [] v = Str("file:///f") -> Url("file:", "/f")
    [] OTHER -> NoUrl

\* A URL as the string a header carries.
UrlStr(url) == <<url.proto, url.path, url.query>>

\* Mutant: 301 and 307 redirect whatever the method.
redirectEligibleAnyMethod(statusCode, method) ==
  statusCode \in {301, 302, 303, 307}

\* The test of handleResponse that decides whether redirectUrl is set.
redirectEligible(statusCode, method) ==
  \/ (statusCode = 301 \/ statusCode = 307) /\ (method = "GET" \/ method = "HEAD")
  \/ statusCode = 302 \/ statusCode = 303

\* The method of redirectRequest.
redirectMethod(statusCode, method) == "GET"

\* Mutant: the guard trips one redirect early.
tooManyRedirectsEarly(redirects, max) == redirects >= max

\* The loop guard of handleResponse, on the incremented count.
tooManyRedirects(redirects, max) == redirects > max

\* Number of redirects so far: req.redirects || 0.
priorRedirects(req) == IF req.redirects = -1 THEN 0 ELSE req.redirects

\* What handleResponse hands on:
\*   kind "next"     - next(), with res as it left it
\*   kind "error"    - next(error)
\*   kind "redirect" - browser.resources._runPipeline(redirectRequest, next)
handleResponse(req, res, jar, max) ==
  LET headers == HeadersNew(res.headers)
      res1 == [res EXCEPT !.headers = headers]
  IN IF req.url.proto # "http:" /\ req.url.proto # "https:"
     THEN [kind |-> "next", res |-> res1, jar |-> jar, req |-> req, error |-> NoErr]
     ELSE
       LET newCookies == HeadersGetAll(headers, "Set-Cookie")
           jar1 == jar \cup {newCookies[k] : k \in 1..Len(newCookies)}
           redirects == priorRedirects(req)
           location == HeadersGet(headers, "Location")
           redirectUrl == resolveHref(req.url, IF location = Null THEN NoUrl ELSE ParseRef(location))
       IN IF redirectEligible(res.statusCode, req.method)
          THEN
            LET res2 == [res1 EXCEPT !.url = redirectUrl]
                count == redirects + 1
                redirectHeaders ==
                  HeadersDelete(HeadersDelete(HeadersDelete(
                    HeadersSet(HeadersNew(req.headers), "Referer", UrlStr(req.url)),
                    "Content-Type"), "Content-Length"), "Content-Transfer-Encoding")
                redirectRequest ==
                  [method |-> redirectMethod(res.statusCode, req.method),
                   url |-> res2.url, headers |-> redirectHeaders, params |-> NoParams,
                   body |-> NoBody, redirects |-> count, multipart |-> FALSE]
            IN IF tooManyRedirects(count, max)
               THEN [kind |-> "error", res |-> res2, jar |-> jar1, req |-> req,
                     error |-> "Too many redirects"]
               ELSE [kind |-> "redirect", res |-> res2, jar |-> jar1, req |-> redirectRequest,
                     error |-> NoErr]
          ELSE [kind |-> "next", res |-> [res1 EXCEPT !.redirects = redirects],
                jar |-> jar1, req |-> req, error |-> NoErr]

\* The encoding decompressBody acts on: "deflate", "gzip" or "" for neither.
encodingOf(res) ==
  LET transferEncoding == HeadersGet(res.headers, "Transfer-Encoding")
      contentEncoding == HeadersGet(res.headers, "Content-Encoding")
  IN IF contentEncoding = Str("deflate") \/ transferEncoding = Str("deflate") THEN "deflate"
     ELSE IF contentEncoding = Str("gzip") \/ transferEncoding = Str("gzip") THEN "gzip"
     ELSE ""

\* The callback of Zlib.inflate / Zlib.gunzip in decompressBody: res.body
\* takes the buffer (undefined on failure) and the error goes to next.
zlibCallback(res, encoding) ==
  IF (encoding = "gzip" /\ res.body = "gz") \/ (encoding = "deflate" /\ res.body = "deflated")
  THEN [res |-> [res EXCEPT !.body = "bytes"], error |-> NoErr]
  ELSE [res |-> [res EXCEPT !.body = NoBody], error |-> "incorrect header check"]

isBuffer(body) == body \in {"gz", "deflated", "bytes"}

\* iconv.decode of a buffer.
decode(body) == IF body = "bytes" THEN "text" ELSE "garbled"

decodeBody(req, res) ==
  IF ~isBuffer(res.body) THEN res
  ELSE
    LET given == HeadersGet(res.headers, "Content-Type")
        contentType == IF given = Null \/ given = <<>> THEN Str("application/unknown") ELSE given
        type == IF contentType \in {Str("text/html"), Str("text/plain"), Str("text/plain; charset=utf8")}
                THEN "text" ELSE "other"
        explicit == contentType = Str("text/plain; charset=utf8")
        isHTML == contentType = Str("text/html") \/ HeadersGet(req.headers, "Accept") = Str("text/html")
    IN IF type # "text" THEN res
       ELSE IF explicit \/ isHTML THEN [res EXCEPT !.body = decode(res.body)]
       ELSE res

\* ------------------------------------------------------------------ inputs
\* options of request(): the headers and the params of the request.
Options(headers, params) == [headers |-> headers, params |-> params]

\* The request() calls a test makes: method, url, options.
RequestInputs ==
  { <<"get", Url("", "/a"), Options(<<>>, NoParams)>>,
    <<"head", Url("", "/a"), Options(<<>>, NoParams)>>,
    <<"post", Url("", "/a"), Options(<<>>, "a=1")>>,
    <<"get", Url("", "/a"), Options(<< <<"X-Token", Str("mine")>> >>, NoParams)>>,
    <<"post", Url("", "/a"), Options(<< <<"Content-Type", Str("text/plain")>> >>, "a=1")>>,
    <<"post", Url("", "/a"), Options(<< <<"Content-Type", Str("multipart/form-data")>> >>, "a=1")>>,
    <<"post", Url("", "/a"), Options(<< <<"Content-Type", Str("application/json")>> >>, "a=1")>> }

\* The request() calls of SpecHistory: those without headers.
HistoryInputs == {input \in RequestInputs: input[3].headers = <<>>}

\* What the server answers: status, headers, body.
ServerResponses ==
  { <<200, << <<"Content-Type", Str("text/html")>> >>, "bytes">>,
    <<200, << <<"Content-Type", Str("text/html")>>, <<"Content-Encoding", Str("gzip")>> >>, "gz">>,
    <<301, << <<"Location", Str("/b")>> >>, "bytes">>,
    <<302, << <<"Location", Str("/b")>>, <<"Set-Cookie", Str("sid=1")>> >>, "bytes">>,
    <<303, << <<"Location", Str("file:///f")>> >>, "bytes">>,
    <<307, <<>>, "bytes">>,
    <<308, << <<"Location", Str("/b")>> >>, "bytes">> }

\* What the file system answers for a file: URL: the file's bytes, or no such file.
FileAnswers == {"bytes", "ENOENT"}

\* How the wire fails: request.on('error', next).
TransportErrors == {"ECONNREFUSED"}

\* The responses a request-stage handler of a test supplies (a mock): no
\* url, and either no status or a redirect.
MockResponses ==
  { NewResponse(NoUrl, 0, <<>>, "text", -1),
    NewResponse(NoUrl, 302, << <<"Location", Str("/b")>> >>, "text", -1) }

\* ------------------------------------------------------------------ state
\* fetch[i] is the continuation chain of the i-th request() call:
\*   reqs    the request records, reqs[1] of request() and one per redirect
\*   pipes   ghost: the pipeline each _runPipeline call saw
\*   frames  the _runPipeline calls not yet returned, innermost last; each
\*           holds its hop, the handlers still to run and the response
\*   status  "run" (on the stack), "io", "zlib" (waiting), "done"
\*   settled the promise of request(): "pending", "resolved", "rejected"
\*   log     ghost: the handlers invoked, <<hop, handler>>
\*   errAt   ghost: Len(log) when a handler reported an error, else -1
\*   reported ghost: the error that handler reported
\*   short   ghost: <<hop, n>> when the n-th handler invoked in the run of
\*           the hop was a request handler that supplied the response
\*   handled ghost: what each handleResponse saw and did: hop, statusCode,
\*           method, proto of the request URL, redirects so far, kind
\*   options ghost: the options request() was called with
\*   wire    ghost: what makeHTTPRequest gave the wire request, per dispatch
\*   origin  ghost: the hop whose run produced the response now in hand
\*   applied ghost: the response handlers invoked, each with the origin of
\*           the response it was given, its body and its encoding
Frame(hop, handlers, res) == [hop |-> hop, handlers |-> handlers, res |-> res]

Top(f) == f.frames[Len(f.frames)]

SetTop(f, frame) == [f EXCEPT !.frames[Len(f.frames)] = frame]

Logged(f, h) == [f EXCEPT !.log = Append(f.log, <<Top(f).hop, h>>)]

\* The handlers invoked in the run of a hop, in order.
RunLog(f, hop) ==
  LET entries == SelectSeq(f.log, LAMBDA e: e[1] = hop)
  IN [k \in 1..Len(entries) |-> entries[k][2]]

PInit ==
  /\ pipeline = DefaultPipeline
  /\ history = <<>>
  /\ fetch = <<>>
  /\ cur = 0
  /\ cookies = {}
  /\ maxRedirects \in 0..MaxMaxRedirects

\* Resources.addHandler
addHandler(handler) ==
  /\ cur = 0
  /\ Len(pipeline) < Len(DefaultPipeline) + MaxCustom
  /\ Arity(handler) = 2 \/ Arity(handler) = 3
  /\ pipeline' = Append(pipeline, handler)
  /\ UNCHANGED <<history, fetch, cur, cookies, maxRedirects>>
  /\ UNCHANGED <<xvars, hvars, bvars, fvars>>

\* Mutant: the new record goes to the front of the history.
pushFront(array, resource) == <<resource>> \o array

\* this.push(resource)
push(array, resource) == Append(array, resource)

\* Resources.request up to the call of nextRequestHandler in _runPipeline.
\* The record of the history holds, beside response and error, two ghost
\* fields: the number of times the callback assigned it, and the number of
\* the request() call that made it.
request(method, url, options, limit) ==
  /\ cur = 0
  /\ Len(history) < limit
  /\ LET req == NewRequest(toUpperCase(method), url, HeadersNew(options.headers),
                           options.params, NoBody)
     IN /\ history' = push(history, [response |-> NoRes, error |-> NoErr, assigned |-> 0,
                                     call |-> Len(fetch) + 1])
        /\ fetch' = Append(fetch,
             [reqs |-> <<req>>, pipes |-> <<pipeline>>,
              frames |-> <<Frame(1, handlersInOrder(pipeline), NoRes)>>,
              status |-> "run", settled |-> "pending", log |-> <<>>, errAt |-> -1,
              reported |-> NoErr, short |-> {}, handled |-> <<>>,
              options |-> options, wire |-> <<>>, origin |-> 0, applied |-> <<>>])
        /\ cur' = Len(history) + 1
  /\ UNCHANGED <<pipeline, cookies, maxRedirects>>
  /\ UNCHANGED <<xvars, hvars, bvars, fvars>>

\* Mutant: the error rejects the promise and is not stored in the record.
RejectedUnrecorded(i, f, error) ==
  /\ history' = history
  /\ fetch' = [fetch EXCEPT ![i] =
       [f EXCEPT !.frames = <<>>, !.status = "done",
                 !.settled = IF f.settled = "pending" THEN "rejected" ELSE f.settled]]
  /\ cur' = 0

\* The callback request() gives to _runPipeline, called with an error:
\* resource.error = error; reject(error).
Rejected(i, f, error) ==
  /\ history' = [history EXCEPT ![i].error = error, ![i].assigned = @ + 1]
  /\ fetch' = [fetch EXCEPT ![i] =
       [f EXCEPT !.frames = <<>>, !.status = "done",
                 !.settled = IF f.settled = "pending" THEN "rejected" ELSE f.settled]]
  /\ cur' = 0

\* A handler of fetch i reported error through next or threw: every
\* callback up to the one of request() passes the error on.
Failed(i, f, error) ==
  Rejected(i, [f EXCEPT !.errAt = Len(f.log), !.reported = error], error)

\* Mutant: the handlers after the current one, whatever their stage.
responseStageSlice(handlers) == Tail(handlers)

\* handlers.filter(fn => fn.length === 3) in nextRequestHandler.
responseStage(handlers) == SelectSeq(handlers, LAMBDA fn: Arity(fn) = 3)

\* The continuation nextRequestHandler gives a request handler, called
\* with a response: res.url = res.url || req.url, then the response stage.
Responded(f, res) ==
  LET top == Top(f)
      url == IF res.url = NoUrl THEN f.reqs[top.hop].url ELSE res.url
      responseHandlers == responseStage(top.handlers)
  IN [SetTop(f, Frame(top.hop, responseHandlers, [res EXCEPT !.url = url]))
        EXCEPT !.origin = top.hop]

\* The options of new Request(...) in makeHTTPRequest that come from req.
Wire(hop, req) ==
  [hop |-> hop, method |-> req.method, headers |-> toObject(req.headers),
   body |-> req.body, multipart |-> req.multipart]

\* What a handler of a test does when invoked: it passes, fails (reports
\* an error or throws) or, at the request stage, supplies a response.
CustomRequestOutcomes(req) ==
  {Outcome("next", req, NoRes, NoErr), Outcome("error", req, NoRes, "handler error")}
    \cup {Outcome("res", req, res, NoErr) : res \in MockResponses}

\* One call of nextRequestHandler: the first handler left is invoked with
\* the request and its continuation.
nextRequestHandler(i) ==
  /\ cur = i
  /\ fetch[i].status = "run"
  /\ Top(fetch[i]).res = NoRes
  /\ LET top == Top(fetch[i])
         handler == Head(top.handlers)
         req == fetch[i].reqs[top.hop]
         outcomes ==
           CASE handler = "normalizeURL" -> {normalizeURL(req)}
             [] handler = "mergeHeaders" -> {mergeHeaders(req)}
             [] handler = "createBody" -> {createBody(req)}
             [] handler = "makeHTTPRequest" -> {makeHTTPRequest(req, cookies)}
             [] OTHER -> CustomRequestOutcomes(req)
     IN /\ top.handlers # <<>>
        /\ Arity(handler) = 2
        /\ \E out \in outcomes:
             LET f == [Logged(fetch[i], handler) EXCEPT !.reqs[top.hop] = out.req]
             IN IF out.kind = "error" THEN Failed(i, f, out.error)
                ELSE IF out.kind = "res"
                THEN /\ fetch' = [fetch EXCEPT ![i] =
                          [Responded(f, out.res) EXCEPT
                             !.short = IF handler = "makeHTTPRequest" THEN @
                                       ELSE @ \cup {<<top.hop, Len(RunLog(f, top.hop))>>}]]
                     /\ UNCHANGED <<history, cur>>
                ELSE IF out.kind = "next"
                THEN /\ fetch' = [fetch EXCEPT ![i] =
                          SetTop(f, Frame(top.hop, Tail(top.handlers), NoRes))]
                     /\ UNCHANGED <<history, cur>>
                ELSE /\ fetch' = [fetch EXCEPT ![i] =
                          [f EXCEPT !.status = "io",
                                    !.wire = IF out.req.url.proto = "file:" THEN @
                                             ELSE Append(@, Wire(top.hop, out.req))]]
                     /\ cur' = 0
                     /\ UNCHANGED history
  /\ UNCHANGED <<pipeline, cookies, maxRedirects>>
  /\ UNCHANGED <<xvars, hvars, bvars, fvars>>

\* The 'complete' event of the wire request: makeHTTPRequest calls next
\* with the response.
transportComplete(i, answer) ==
  /\ cur = 0
  /\ fetch[i].status = "io"
  /\ LET f == fetch[i]
         req == f.reqs[Top(f).hop]
         res == NewResponse(req.url, answer[1], HeadersNew(answer[2]), answer[3], 0)
     IN /\ req.url.proto # "file:"
        /\ fetch' = [fetch EXCEPT ![i] = [Responded(f, res) EXCEPT !.status = "run"]]
        /\ cur' = i
  /\ UNCHANGED <<pipeline, history, cookies, maxRedirects>>
  /\ UNCHANGED <<xvars, hvars, bvars, fvars>>

\* The callbacks of File.exists and File.readFile: makeHTTPRequest calls
\* next with the file's bytes, or with status 404.
fileComplete(i, answer) ==
  /\ cur = 0
  /\ fetch[i].status = "io"
  /\ LET f == fetch[i]
         req == f.reqs[Top(f).hop]
         res == IF answer = "bytes" THEN NewResponse(NoUrl, 0, <<>>, "bytes", -1)
                ELSE NewResponse(NoUrl, 404, <<>>, NoBody, -1)
     IN /\ req.url.proto = "file:"
        /\ fetch' = [fetch EXCEPT ![i] = [Responded(f, res) EXCEPT !.status = "run"]]
        /\ cur' = i
  /\ UNCHANGED <<pipeline, history, cookies, maxRedirects>>
  /\ UNCHANGED <<xvars, hvars, bvars, fvars>>

\* The 'error' event of the wire request, or a read error of File.readFile.
transportError(i, error) ==
  /\ cur = 0
  /\ fetch[i].status = "io"
  /\ Failed(i, fetch[i], error)
  /\ UNCHANGED <<pipeline, cookies, maxRedirects>>
  /\ UNCHANGED <<xvars, hvars, bvars, fvars>>

\* What a response-stage handler of a test does: it passes or fails.
CustomResponseOutcomes == {NoErr, "handler error"}

\* A redirect that goes on from the transport dispatch, without the
\* request handlers.
redirectRunFromTransport(pipe) ==
  <<"makeHTTPRequest">> \o SelectSeq(pipe, LAMBDA fn: Arity(fn) = 3)

\* browser.resources._runPipeline(redirectRequest, next) in handleResponse:
\* the handlers the run of the redirect starts with.
redirectRun(pipe) == handlersInOrder(pipe)

\* handleResponse invoked by nextResponseHandler, and its continuation.
invokeHandleResponse(i, g, top, req) ==
  LET out == handleResponse(req, top.res, cookies, maxRedirects)
      rest == Tail(top.handlers)
      f == [g EXCEPT !.handled = Append(@,
             [hop |-> top.hop, statusCode |-> top.res.statusCode, method |-> req.method,
              proto |-> req.url.proto, prior |-> top.hop - 1, kind |-> out.kind])]
  IN /\ cookies' = out.jar
     /\ IF out.kind = "error" THEN Failed(i, f, out.error)
        ELSE IF out.kind = "next"
        THEN /\ fetch' = [fetch EXCEPT ![i] = SetTop(f, Frame(top.hop, rest, out.res))]
             /\ UNCHANGED <<history, cur>>
        ELSE /\ fetch' = [fetch EXCEPT ![i] =
                  [SetTop(f, Frame(top.hop, rest, out.res)) EXCEPT
                     !.reqs = Append(@, out.req),
                     !.pipes = Append(@, pipeline),
                     !.frames = Append(@, Frame(Len(f.reqs) + 1, redirectRun(pipeline), NoRes))]]
             /\ UNCHANGED <<history, cur>>

\* decompressBody invoked by nextResponseHandler: it calls next at once, or
\* leaves the body to Zlib and returns.
invokeDecompressBody(i, f, top) ==
  /\ IF encodingOf(top.res) # ""
     THEN /\ fetch' = [fetch EXCEPT ![i] = [f EXCEPT !.status = "zlib"]]
          /\ cur' = 0
     ELSE /\ fetch' = [fetch EXCEPT ![i] = SetTop(f, Frame(top.hop, Tail(top.handlers), top.res))]
          /\ cur' = cur
  /\ UNCHANGED <<history, cookies>>

\* decodeBody invoked by nextResponseHandler, and its continuation.
invokeDecodeBody(i, f, top, req) ==
  /\ fetch' = [fetch EXCEPT ![i] =
       SetTop(f, Frame(top.hop, Tail(top.handlers), decodeBody(req, top.res)))]
  /\ UNCHANGED <<history, cur, cookies>>

\* A response-stage handler of a test that returns without calling next.
invokeCustomResponseNoNext(i, f, top) ==
  /\ fetch' = [fetch EXCEPT ![i] = [f EXCEPT !.status = "stalled"]]
  /\ cur' = 0
  /\ UNCHANGED <<history, cookies>>

\* A response-stage handler of a test invoked by nextResponseHandler.
invokeCustomResponse(i, f, top) ==
  /\ \E error \in CustomResponseOutcomes:
       IF error # NoErr THEN Failed(i, f, error)
       ELSE /\ fetch' = [fetch EXCEPT ![i] = SetTop(f, Frame(top.hop, Tail(top.handlers), top.res))]
            /\ UNCHANGED <<history, cur>>
  /\ UNCHANGED cookies

\* One call of nextResponseHandler with a handler left: the handler is
\* invoked with the request, the response and its continuation.
nextResponseHandler(i) ==
  /\ cur = i
  /\ fetch[i].status = "run"
  /\ Top(fetch[i]).res # NoRes
  /\ Top(fetch[i]).handlers # <<>>
  /\ LET top == Top(fetch[i])
         handler == Head(top.handlers)
         req == fetch[i].reqs[top.hop]
         f == [Logged(fetch[i], handler) EXCEPT !.applied = Append(@,
                [handler |-> handler, origin |-> fetch[i].origin, body |-> top.res.body,
                 encoding |-> IF handler = "handleResponse" THEN ""
                              ELSE encodingOf(top.res)])]
     IN IF handler = "handleResponse" THEN invokeHandleResponse(i, f, top, req)
        ELSE IF handler = "decompressBody" THEN invokeDecompressBody(i, f, top)
        ELSE IF handler = "decodeBody" THEN invokeDecodeBody(i, f, top, req)
        ELSE invokeCustomResponse(i, f, top)
  /\ UNCHANGED <<pipeline, maxRedirects>>
  /\ UNCHANGED <<xvars, hvars, bvars, fvars>>

\* The callback decompressBody gives to Zlib.inflate / Zlib.gunzip.
decompressDone(i) ==
  /\ cur = 0
  /\ fetch[i].status = "zlib"
  /\ LET f == fetch[i]
         top == Top(f)
         out == zlibCallback(top.res, encodingOf(top.res))
     IN IF out.error # NoErr
        THEN Failed(i, SetTop(f, Frame(top.hop, top.handlers, out.res)), out.error)
        ELSE /\ fetch' = [fetch EXCEPT ![i] =
                  [SetTop(f, Frame(top.hop, Tail(top.handlers), out.res)) EXCEPT !.status = "run"]]
             /\ cur' = i
             /\ UNCHANGED history
  /\ UNCHANGED <<pipeline, cookies, maxRedirects>>
  /\ UNCHANGED <<xvars, hvars, bvars, fvars>>

\* nextResponseHandler out of handlers in the run of a redirect: callback
\* is the continuation of the handleResponse that followed the redirect,
\* which goes on with the response handlers after it, on the new response.
redirectReturn(i) ==
  /\ cur = i
  /\ fetch[i].status = "run"
  /\ Len(fetch[i].frames) > 1
  /\ Top(fetch[i]).res # NoRes
  /\ Top(fetch[i]).handlers = <<>>
  /\ LET f == fetch[i]
         outer == f.frames[Len(f.frames) - 1]
         popped == [f EXCEPT !.frames = SubSeq(@, 1, Len(@) - 1)]
     IN fetch' = [fetch EXCEPT ![i] = SetTop(popped, Frame(outer.hop, outer.handlers, Top(f).res))]
  /\ UNCHANGED <<pipeline, history, cur, cookies, maxRedirects>>
  /\ UNCHANGED <<xvars, hvars, bvars, fvars>>

\* nextResponseHandler out of handlers in the run request() started:
\* callback is the one of request(), which stores the response and emits
\* 'response'.  If a listener throws, resolve is not reached and the throw
\* unwinds to the try of the last handler that called next, whose catch
\* calls the callback again, with the error.
complete(i, listenerThrows) ==
  /\ cur = i
  /\ fetch[i].status = "run"
  /\ Len(fetch[i].frames) = 1
  /\ Top(fetch[i]).res # NoRes
  /\ Top(fetch[i]).handlers = <<>>
  /\ LET f == fetch[i]
         res == Top(f).res
         final == [res EXCEPT !.statusCode = IF @ = 0 THEN 200 ELSE @,
                              !.redirects = IF @ = -1 THEN 0 ELSE @]
     IN /\ history' = [history EXCEPT
             ![i].response = final,
             ![i].error = IF listenerThrows THEN "listener error" ELSE @,
             ![i].assigned = IF listenerThrows THEN @ + 2 ELSE @ + 1]
        /\ fetch' = [fetch EXCEPT ![i] =
             [f EXCEPT !.frames = <<>>, !.status = "done",
                       !.settled = IF listenerThrows THEN "rejected" ELSE "resolved"]]
        /\ cur' = 0
  /\ UNCHANGED <<pipeline, cookies, maxRedirects>>
  /\ UNCHANGED <<xvars, hvars, bvars, fvars>>

\* ------------------------------------------------------------------ Headers collection
\* The names and values the calls on the collection are made with.
HeaderNames == {"Accept", "accept", "X-Token"}
HeaderValues == {Str("x"), <<"x", CR, LF, "y">>, <<"x", LF, "y">>}

\* The arrays a collection is constructed from.
HeaderInits ==
  { <<>>,
    << <<"Accept", <<"x", CR, LF, "y">>>>, <<"accept", Str("x")>> >> }

HInit ==
  /\ hdrs = <<>>
  /\ hlast = [op |-> "new", name |-> "", value |-> <<>>, before |-> <<>>]

\* new Headers(init)
Headers(init) ==
  /\ hdrs' = HeadersNew(init)
  /\ hlast' = [op |-> "new", name |-> "", value |-> <<>>, before |-> <<>>]
  /\ UNCHANGED <<pvars, xvars, bvars, fvars>>

\* Headers.append
append(name, value) ==
  /\ Len(hdrs) < MaxHeaders
  /\ hdrs' = HeadersAppend(hdrs, name, value)
  /\ hlast' = [op |-> "append", name |-> name, value |-> value, before |-> hdrs]
  /\ UNCHANGED <<pvars, xvars, bvars, fvars>>

\* Headers.set
set(name, value) ==
  /\ HeadersHas(hdrs, name) \/ Len(hdrs) < MaxHeaders
  /\ hdrs' = HeadersSet(hdrs, name, value)
  /\ hlast' = [op |-> "set", name |-> name, value |-> value, before |-> hdrs]
  /\ UNCHANGED <<pvars, xvars, bvars, fvars>>

\* Headers.delete
delete(name) ==
  /\ hdrs' = HeadersDelete(hdrs, name)
  /\ hlast' = [op |-> "delete", name |-> name, value |-> <<>>, before |-> hdrs]
  /\ UNCHANGED <<pvars, xvars, bvars, fvars>>

NextHeaders ==
  \/ \E init \in HeaderInits: Headers(init)
  \/ \E name \in HeaderNames: \E value \in HeaderValues: append(name, value)
  \/ \E name \in HeaderNames: \E value \in HeaderValues: set(name, value)
  \/ \E name \in HeaderNames: delete(name)

\* ------------------------------------------------------------------ Body
\* What a Body is constructed from: the bytes its stream will give (<<>> for
\* no stream, <<"">> for a stream that is no longer readable), the
\* Content-Type the constructor sets, and the Content-Encoding of its headers.
BodyInits ==
  { [kind |-> "none", stream |-> <<>>, contentType |-> "", encoding |-> ""],
    [kind |-> "string", stream |-> <<"{}">>, contentType |-> "text/plain;charset=UTF-8", encoding |-> ""],
    [kind |-> "string", stream |-> <<"text">>, contentType |-> "text/plain;charset=UTF-8", encoding |-> ""],
    [kind |-> "FormData", stream |-> <<"multipart">>, contentType |-> "multipart/form-data", encoding |-> ""],
    [kind |-> "FormData", stream |-> <<>>, contentType |-> "text/plain;charset=UTF-8", encoding |-> ""],
    [kind |-> "Readable", stream |-> <<"">>, contentType |-> "", encoding |-> ""],
    [kind |-> "Readable", stream |-> <<"gz:{}">>, contentType |-> "application/json", encoding |-> "gzip"] }

Accessors == {"arrayBuffer", "formData", "json", "text"}

\* The Body of Init is one constructed from nothing.
BInit ==
  /\ bodyId = 1
  /\ bstream = [bytes |-> <<>>, encoding |-> ""]
  /\ bcontentType = ""
  /\ bodyUsed = FALSE
  /\ bodyValue = "<null>"
  /\ accessed = <<>>

\* Body.constructor: a new Body takes the place of the one before.
Body(bodyInit) ==
  /\ bodyId < MaxBodies
  /\ bodyId' = bodyId + 1
  /\ bstream' = [bytes |-> bodyInit.stream, encoding |-> bodyInit.encoding]
  /\ bcontentType' = bodyInit.contentType
  /\ bodyUsed' = FALSE
  /\ bodyValue' = "<null>"
  /\ accessed' = <<>>
  /\ UNCHANGED <<pvars, xvars, hvars, fvars>>

\* decompressStream: the bytes the stream gives after inflate or gunzip.
decompressStream(bytes, encoding) ==
  IF encoding \in {"deflate", "gzip"}
  THEN CASE bytes = "gz:{}" -> "{}"
         [] bytes = "gz:text" -> "text"
         [] OTHER -> ""
  ELSE bytes

\* _consume without the mark on the Body.
consumeUnmarked(used, stream) ==
  IF used THEN [thrown |-> "Body already consumed", bodyUsed |-> used, buffer |-> "<none>"]
  ELSE IF stream.bytes = <<>> THEN [thrown |-> "", bodyUsed |-> used, buffer |-> "<null>"]
  ELSE [thrown |-> "", bodyUsed |-> TRUE, buffer |-> decompressStream(stream.bytes[1], stream.encoding)]

\* Body._consume: what it throws, what it leaves of _bodyUsed, and the
\* buffer its promise resolves with ("<null>" for null).
consume(used, stream) ==
  IF used THEN [thrown |-> "Body already consumed", bodyUsed |-> used, buffer |-> "<none>"]
  ELSE IF stream.bytes = <<>> THEN [thrown |-> "", bodyUsed |-> TRUE, buffer |-> "<null>"]
  ELSE IF stream.bytes[1] = "" THEN [thrown |-> "", bodyUsed |-> TRUE, buffer |-> ""]
  ELSE [thrown |-> "", bodyUsed |-> TRUE, buffer |-> decompressStream(stream.bytes[1], stream.encoding)]

\* JSON.parse on the strings the model uses: "" for a value, else the error.
parseJSON(string) == IF string = "{}" THEN "" ELSE "SyntaxError"

\* The part of an accessor after its await of _consume: what it assigns
\* to body.body (keep for no assignment) and how its promise settles.
afterConsume(accessor, buffer, mimeType, keep) ==
  CASE accessor = "arrayBuffer" ->
         [body |-> buffer, outcome |-> IF buffer = "<null>" THEN "TypeError" ELSE "resolved"]
    [] accessor = "formData" ->
         [body |-> keep,
          outcome |-> IF mimeType \in {"multipart/form-data", "application/x-www-form-urlencoded"}
                      THEN "Not implemented yet" ELSE "TypeError"]
    [] accessor = "json" ->
         IF buffer = "<null>" THEN [body |-> keep, outcome |-> "TypeError"]
         ELSE [body |-> buffer,
               outcome |-> IF parseJSON(buffer) = "" THEN "resolved" ELSE parseJSON(buffer)]
    [] OTHER ->
         IF buffer = "<null>" THEN [body |-> keep, outcome |-> "TypeError"]
         ELSE [body |-> buffer, outcome |-> "resolved"]

\* contentType.split(';')[0] on the content types the model uses.
mimeTypeOf(type) ==
  IF type = "text/plain;charset=UTF-8" THEN "text/plain" ELSE type

\* A call of arrayBuffer, formData, json or text up to its await: _consume
\* runs to its first suspension, so the mark is set before the call returns.
access(accessor) ==
  /\ Len(accessed) < MaxAccessorCalls
  /\ LET c == consume(bodyUsed, bstream)
     IN /\ bodyUsed' = c.bodyUsed
        /\ accessed' = Append(accessed,
             [accessor |-> accessor, usedBefore |-> bodyUsed, usedAfter |-> c.bodyUsed,
              buffer |-> c.buffer,
              outcome |-> IF c.thrown # "" THEN c.thrown ELSE "pending"])
  /\ UNCHANGED <<bodyId, bstream, bcontentType, bodyValue>>
  /\ UNCHANGED <<pvars, xvars, hvars, fvars>>

\* The stream has ended (or there was none): the accessor resumes after its
\* await and its promise settles.
resume(k) ==
  /\ k \in 1..Len(accessed)
  /\ accessed[k].outcome = "pending"
  /\ LET a == afterConsume(accessed[k].accessor, accessed[k].buffer,
                           mimeTypeOf(bcontentType), bodyValue)
     IN /\ bodyValue' = a.body
        /\ accessed' = [accessed EXCEPT ![k].outcome = a.outcome]
  /\ UNCHANGED <<bodyId, bstream, bcontentType, bodyUsed>>
  /\ UNCHANGED <<pvars, xvars, hvars, fvars>>

NextBody ==
  \/ \E bodyInit \in BodyInits: Body(bodyInit)
  \/ \E accessor \in Accessors: access(accessor)
  \/ \E k \in 1..Len(accessed): resume(k)

\* ------------------------------------------------------------------ Request and Response
\* An object is [class, method, stream, bodyUsed, contentType]: stream is
\* the index of its _stream in streams, 0 for none; method is "" for a
\* Response.  A stream is [readable, readers]: readers are the objects
\* whose _consume listens for its data.
FInit ==
  /\ objects = <<>>
  /\ streams = <<>>
  /\ reads = <<>>
  /\ made = <<>>

\* A bodyInit is the index of an object, or one of these.
NoBodyInit == 0
StringBody == -1

\* input of new Request(input, init) is the index of an object, or this.
UrlInput == 0

\* init of new Request(input, init): method is "" when init has none, body
\* is a bodyInit.
NoInit == [none |-> TRUE]
RequestInit(method, body) == [method |-> method, body |-> body]

\* The init arguments a page passes.
Inits ==
  {NoInit} \cup {RequestInit(method, body) : method \in {"", "get", "post"}, body \in {NoBodyInit, StringBody}}

IsObject(bodyInit) == bodyInit \in 1..Len(objects)

\* Body.constructor: the _stream and the Content-Type of the new object,
\* and whether a new stream is made for it.
BodyOf(bodyInit) ==
  IF IsObject(bodyInit)
  THEN [stream |-> objects[bodyInit].stream, contentType |-> objects[bodyInit].contentType,
        fresh |-> FALSE]
  ELSE IF bodyInit = StringBody
  THEN [stream |-> Len(streams) + 1, contentType |-> "text/plain;charset=UTF-8", fresh |-> TRUE]
  ELSE [stream |-> 0, contentType |-> "", fresh |-> FALSE]

\* What the Request constructor throws, "" for nothing.  inherits says that
\* input is a Request with a stream.
RequestError(input, init, inherits) ==
  LET given == IF init = NoInit THEN (IF IsObject(input) THEN objects[input].method ELSE "")
               ELSE init.method
      method == toUpperCase(IF given = "" THEN "GET" ELSE given)
  IN IF inherits /\ objects[input].bodyUsed THEN "Request body already used"
     ELSE IF IsObject(input) /\ objects[input].class # "Request"
     THEN "Input must be string or another Request"
     ELSE IF init # NoInit /\ init.body # NoBodyInit /\ method \in {"GET", "HEAD"}
     THEN "Cannot include body with GET/HEAD request"
     ELSE ""

\* new Request(input, init)
Request(input, init) ==
  /\ Len(made) < MaxObjects
  /\ LET inherits == IsObject(input) /\ objects[input].class = "Request" /\ objects[input].stream # 0
         thrown == RequestError(input, init, inherits)
         \* input._bodyUsed = true is done before anything after it can throw
         marked == IF inherits /\ ~objects[input].bodyUsed
                   THEN [objects EXCEPT ![input].bodyUsed = TRUE] ELSE objects
         given == IF init = NoInit THEN (IF IsObject(input) THEN objects[input].method ELSE "")
                  ELSE init.method
         method == toUpperCase(IF given = "" THEN "GET" ELSE given)
         bodyInit == IF init # NoInit /\ init.body # NoBodyInit THEN init.body
                     ELSE IF inherits THEN input ELSE NoBodyInit
         b == BodyOf(bodyInit)
     IN /\ made' = Append(made, [class |-> "Request", input |-> input, init |-> init,
                                 thrown |-> thrown])
        /\ IF thrown # ""
           THEN objects' = marked /\ UNCHANGED streams
           ELSE /\ objects' = Append(marked,
                     [class |-> "Request", method |-> method, stream |-> b.stream,
                      bodyUsed |-> FALSE, contentType |-> b.contentType])
                /\ streams' = IF b.fresh THEN Append(streams, [readable |-> TRUE, readers |-> {}])
                              ELSE streams
  /\ UNCHANGED reads
  /\ UNCHANGED <<pvars, xvars, hvars, bvars>>

\* new Response(bodyInit, responseInit) with a status in range.
Response(bodyInit) ==
  /\ Len(made) < MaxObjects
  /\ LET b == BodyOf(bodyInit)
     IN /\ made' = Append(made, [class |-> "Response", input |-> bodyInit, init |-> NoInit,
                                 thrown |-> ""])
        /\ objects' = Append(objects,
             [class |-> "Response", method |-> "", stream |-> b.stream,
              bodyUsed |-> FALSE, contentType |-> b.contentType])
        /\ streams' = IF b.fresh THEN Append(streams, [readable |-> TRUE, readers |-> {}])
                      ELSE streams
  /\ UNCHANGED reads
  /\ UNCHANGED <<pvars, xvars, hvars, bvars>>

\* Body.text up to its await, on object k: _consume marks the object and
\* either settles at once or listens to the stream.
text(k) ==
  /\ Len(reads) < MaxReads
  /\ k \in 1..Len(objects)
  /\ LET o == objects[k]
         outcome == IF o.bodyUsed THEN "Body already consumed"
                    ELSE IF o.stream = 0 THEN "TypeError"
                    ELSE IF ~streams[o.stream].readable THEN "empty"
                    ELSE "pending"
     IN /\ objects' = [objects EXCEPT ![k].bodyUsed = TRUE]
        /\ streams' = IF outcome = "pending"
                      THEN [streams EXCEPT ![o.stream].readers = @ \cup {k}]
                      ELSE streams
        /\ reads' = Append(reads, [object |-> k, stream |-> o.stream, outcome |-> outcome])
  /\ UNCHANGED made
  /\ UNCHANGED <<pvars, xvars, hvars, bvars>>

\* The 'end' event of stream s: every _consume listening to it resolves
\* with the data, and the stream is no longer readable.
streamEnd(s) ==
  /\ s \in 1..Len(streams)
  /\ streams[s].readable
  /\ streams[s].readers # {}
  /\ streams' = [streams EXCEPT ![s] = [readable |-> FALSE, readers |-> {}]]
  /\ reads' = [r \in 1..Len(reads) |->
                 IF reads[r].stream = s /\ reads[r].outcome = "pending"
                 THEN [reads[r] EXCEPT !.outcome = "data"] ELSE reads[r]]
  /\ UNCHANGED <<objects, made>>
  /\ UNCHANGED <<pvars, xvars, hvars, bvars>>

NextFetch ==
  \/ \E input \in {UrlInput} \cup (1..Len(objects)): \E init \in Inits: Request(input, init)
  \/ \E k \in 1..Len(objects): Request(UrlInput, RequestInit("post", k))
  \/ \E bodyInit \in {NoBodyInit, StringBody} \cup (1..Len(objects)): Response(bodyInit)
  \/ \E k \in 1..Len(objects): text(k)
  \/ \E s \in 1..Len(streams): streamEnd(s)

\* ------------------------------------------------------------------ XMLHttpRequest
\* Lifecycle states
UNSENT == 0
OPENED == 1
HEADERS_RECEIVED == 2
LOADING == 3
DONE == 4

\* window.location of the owning document.
Location == [protocol |-> "http:", hostname |-> "example.test", port |-> "", host |-> "example.test"]

\* URL.parse(URL.resolve(location.href, url)): a relative reference takes
\* the protocol, host name and port of the document.
resolveURL(url) ==
  IF url.protocol = ""
  THEN [protocol |-> Location.protocol, hostname |-> Location.hostname, port |-> Location.port]
  ELSE url

\* The port after open() has deleted a standard one.
normalPort(url) ==
  IF (url.protocol = "https:" /\ url.port = "443") \/ (url.protocol = "http:" /\ url.port = "80")
  THEN "" ELSE url.port

\* url.host as open() sets it: the host name, and the port if one is left.
hostOf(url) ==
  LET hostname == IF url.hostname = "" THEN Location.hostname ELSE url.hostname
  IN IF normalPort(url) # "" THEN <<hostname, normalPort(url)>> ELSE <<hostname>>

\* The test of open() that makes the request a CORS request.
isCrossOrigin(url) == hostOf(url) # <<Location.host>>

\* headers.origin of a CORS request.
originOf == <<Location.protocol, Location.host>>

\* Assignment to a property of a plain object, held as a set of <<name, value>>.
ObjectSet(object, name, value) == {p \in object: p[1] # name} \cup {<<name, value>>}

ObjectHas(object, name) == \E p \in object: p[1] = name

\* The calls of open() a page makes: method, url, useAsync.
OpenInputs ==
  { <<"get", [protocol |-> "", hostname |-> "", port |-> ""], TRUE>>,
    <<"POST", [protocol |-> "http:", hostname |-> "example.test", port |-> "80"], TRUE>>,
    <<"GET", [protocol |-> "http:", hostname |-> "other.test", port |-> ""], TRUE>>,
    <<"GET", [protocol |-> "https:", hostname |-> "example.test", port |-> ""], TRUE>>,
    <<"GET", [protocol |-> "ftp:", hostname |-> "example.test", port |-> ""], TRUE>>,
    <<"TRACE", [protocol |-> "", hostname |-> "", port |-> ""], TRUE>>,
    <<"BREW", [protocol |-> "", hostname |-> "", port |-> ""], TRUE>>,
    <<"GET", [protocol |-> "", hostname |-> "", port |-> ""], FALSE>> }

\* How the transport ends: an error code, or "" and the
\* Access-Control-Allow-Origin header of the response ("" for none).
HttpOutcomes ==
  { <<"ETIMEDOUT", <<>>>>, <<"ECONNRESET", <<>>>>,
    <<"", <<>>>>, <<"", <<"*">>>>, <<"", originOf>>, <<"", <<"http:", "other.test">>>> }

\* One event as a listener sees it: its name and the readyState it reads.
Ev(eventName, state) == [event |-> eventName, readyState |-> state]

\* observed is what a page can see happen on the instance:
\*   events   the names of the events _fire dispatched, in order
\*   trace    the same events, each with the readyState at its dispatch
\*   states   the values readyState was assigned, each with the method that did
\*   thrown   the exception the last call raised, "" for none
\*   calls    the number of calls of open, setRequestHeader, send and abort
\*   steps    the calls and the transport callbacks in order, each with the
\*            exception it raised
\*   done     one record per transport callback: the request it was for,
\*            what the transport gave it, and what the page saw of it
\*   errors   what was pushed to browser.errors
\*   raised   what was raised to the document
XInit ==
  /\ readyState = UNSENT
  /\ pending = 0
  /\ requests = <<>>
  /\ inflight = <<>>
  /\ cors = <<>>
  /\ response = <<>>
  /\ xhrError = ""
  /\ observed = [events |-> <<>>, trace |-> <<>>, states |-> <<>>, thrown |-> "", calls |-> 0,
                 steps |-> <<>>, done |-> <<>>, errors |-> <<>>, raised |-> <<>>]

Init == PInit /\ XInit /\ HInit /\ BInit /\ FInit

\* The body of abort(): what it leaves of readyState and the requests, and
\* the exception it dies of ("" for none).
abortResult(state, rq, all) ==
  IF state = UNSENT \/ (state = OPENED /\ rq # 0 /\ ~all[rq].sent)
  THEN [readyState |-> UNSENT, requests |-> all, thrown |-> "", reset |-> TRUE]
  ELSE IF rq = 0
  THEN [readyState |-> state, requests |-> all, thrown |-> "TypeError", reset |-> FALSE]
  ELSE [readyState |-> state, requests |-> [all EXCEPT ![rq].aborted = TRUE],
        thrown |-> "", reset |-> FALSE]

Called(o, method, thrown) ==
  [o EXCEPT !.calls = @ + 1, !.thrown = thrown,
            !.steps = Append(@, [method |-> method, thrown |-> thrown])]

\* XMLHttpRequest.abort
abort ==
  /\ observed.calls < MaxCalls
  /\ LET a == abortResult(readyState, pending, requests)
     IN /\ readyState' = a.readyState
        /\ requests' = a.requests
        /\ observed' = [Called(observed, "abort", a.thrown) EXCEPT
             !.states = IF a.reset THEN Append(@, <<UNSENT, "abort">>) ELSE @]
  /\ UNCHANGED <<pending, inflight, cors, response, xhrError>>
  /\ UNCHANGED <<pvars, hvars, bvars, fvars>>

\* The exception open() raises for its arguments, "" for none.
openError(method, url) ==
  IF toUpperCase(method) \in {"CONNECT", "TRACE", "TRACK"} THEN "SECURITY_ERR"
  ELSE IF toUpperCase(method) \notin {"DELETE", "GET", "HEAD", "OPTIONS", "POST", "PUT"} THEN "SYNTAX_ERR"
  ELSE IF resolveURL(url).protocol \notin {"http:", "https:"} THEN "NOT_SUPPORTED_ERR"
  ELSE ""

\* _stateChanged: assigns readyState, then fires readystatechange.
stateChanged(o, newState, by) ==
  [o EXCEPT !.states = Append(@, <<newState, by>>),
            !.events = Append(@, "readystatechange"),
            !.trace = Append(@, Ev("readystatechange", newState))]

\* _fire, while readyState is state.
fire(o, eventName, state) ==
  [o EXCEPT !.events = Append(@, eventName), !.trace = Append(@, Ev(eventName, state))]

\* XMLHttpRequest.open
open(method, url, useAsync) ==
  /\ observed.calls < MaxCalls
  /\ IF useAsync = FALSE
     THEN /\ observed' = Called(observed, "open", "NOT_SUPPORTED_ERR")
          /\ UNCHANGED <<readyState, pending, requests, inflight, cors, response, xhrError>>
     ELSE
       LET a == abortResult(readyState, pending, requests)
           aborted == [observed EXCEPT
             !.states = IF a.reset THEN Append(@, <<UNSENT, "abort">>) ELSE @]
           resolved == resolveURL(url)
           crossOrigin == isCrossOrigin(resolved)
           rq == [method |-> toUpperCase(method),
                       headers |-> IF crossOrigin THEN {<<"origin", originOf>>} ELSE {},
                       url |-> [protocol |-> resolved.protocol, host |-> hostOf(resolved)],
                       sent |-> FALSE, aborted |-> FALSE]
       IN IF a.thrown # ""
          THEN /\ observed' = Called(observed, "open", a.thrown)
               /\ UNCHANGED <<readyState, pending, requests, inflight, cors, response, xhrError>>
          ELSE IF openError(method, url) # ""
          THEN /\ readyState' = a.readyState
               /\ requests' = a.requests
               /\ observed' = Called(aborted, "open", openError(method, url))
               /\ UNCHANGED <<pending, inflight, cors, response, xhrError>>
          ELSE /\ cors' = IF crossOrigin THEN originOf ELSE cors
               /\ response' = <<>>
               /\ xhrError' = ""
               /\ requests' = Append(a.requests, rq)
               /\ pending' = Len(requests) + 1
               /\ readyState' = OPENED
               /\ observed' = stateChanged(Called(aborted, "open", ""), OPENED, "open")
               /\ UNCHANGED inflight
  /\ UNCHANGED <<pvars, hvars, bvars, fvars>>

\* XMLHttpRequest.setRequestHeader
setRequestHeader(header, value) ==
  /\ observed.calls < MaxCalls
  /\ IF readyState # OPENED
     THEN /\ observed' = Called(observed, "setRequestHeader", "INVALID_STATE_ERR")
          /\ UNCHANGED requests
     ELSE /\ requests' = [requests EXCEPT ![pending].headers = ObjectSet(@, toLowerCase(header), value)]
          /\ observed' = Called(observed, "setRequestHeader", "")
  /\ UNCHANGED <<readyState, pending, inflight, cors, response, xhrError>>
  /\ UNCHANGED <<pvars, hvars, bvars, fvars>>

\* send() without the test of readyState.
sendUnchecked(data) ==
  /\ observed.calls < MaxCalls
  /\ pending # 0
  /\ requests' = [requests EXCEPT ![pending].sent = TRUE]
  /\ inflight' = Append(inflight, pending)
  /\ observed' = fire(Called(observed, "send", ""), "loadstart", readyState)
  /\ UNCHANGED <<readyState, pending, cors, response, xhrError>>
  /\ UNCHANGED <<pvars, hvars, bvars, fvars>>

\* XMLHttpRequest.send up to its return: the request goes to the transport
\* (window._eventQueue.http) with the callback that httpCallback models.
send(data) ==
  /\ observed.calls < MaxCalls
  /\ IF readyState # OPENED
     THEN /\ observed' = Called(observed, "send", "INVALID_STATE_ERR")
          /\ UNCHANGED <<requests, inflight>>
     ELSE /\ requests' = [requests EXCEPT
               ![pending].headers = IF ObjectHas(@, "content-type") THEN @
                                    ELSE ObjectSet(@, "content-type", "text/plain"),
               ![pending].sent = TRUE]
          /\ inflight' = Append(inflight, pending)
          /\ observed' = fire(Called(observed, "send", ""), "loadstart", readyState)
  /\ UNCHANGED <<readyState, pending, cors, response, xhrError>>
  /\ UNCHANGED <<pvars, hvars, bvars, fvars>>

\* The branches with the test of the transport error ahead of the test of
\* request.aborted.
callbackPathErrorFirst(aborted, error, corsFlag, allowedOrigin) ==
  IF error = "ETIMEDOUT" THEN "timeout"
  ELSE IF error # "" THEN "error"
  ELSE IF aborted THEN "abort"
  ELSE IF corsFlag # <<>> /\ ~(allowedOrigin = <<"*">> \/ allowedOrigin = corsFlag) THEN "cors"
  ELSE "load"

\* The branch the callback of send() takes.
callbackPath(aborted, error, corsFlag, allowedOrigin) ==
  IF aborted THEN "abort"
  ELSE IF error = "ETIMEDOUT" THEN "timeout"
  ELSE IF error # "" THEN "error"
  ELSE IF corsFlag # <<>> /\ ~(allowedOrigin = <<"*">> \/ allowedOrigin = corsFlag) THEN "cors"
  ELSE "load"

\* The events of the callback with progress fired ahead of the last two
\* transitions of a success.
callbackEventsProgressFirst(o, path) ==
  IF path = "load"
  THEN fire(fire(stateChanged(stateChanged(fire(stateChanged(o,
              HEADERS_RECEIVED, "callback"), "progress", HEADERS_RECEIVED),
              LOADING, "callback"), DONE, "callback"), "load", DONE), "loadend", DONE)
  ELSE fire(fire(stateChanged(o, DONE, "callback"), "progress", DONE), "loadend", DONE)

\* What the callback of send() fires on its path, on the ghost record.
callbackEvents(o, path) ==
  IF path = "abort"
  THEN fire(fire(stateChanged(o, DONE, "callback"), "progress", DONE), "abort", DONE)
  ELSE IF path \in {"timeout", "error"}
  THEN fire(fire(fire(stateChanged(o, DONE, "callback"), "progress", DONE), path, DONE),
            "loadend", DONE)
  ELSE IF path = "cors"
  THEN fire(fire(fire(stateChanged(o, DONE, "callback"), "progress", DONE), "error", DONE),
            "loadend", DONE)
  ELSE fire(fire(fire(stateChanged(stateChanged(stateChanged(o,
              HEADERS_RECEIVED, "callback"), LOADING, "callback"), DONE, "callback"),
              "progress", DONE), "load", DONE), "loadend", DONE)

\* The callback send() gave the transport, called for the k-th request in
\* flight with an error or a response.
httpCallback(k, error, allowedOrigin) ==
  /\ k \in 1..Len(inflight)
  /\ LET rq == inflight[k]
         path == callbackPath(requests[rq].aborted, error, cors, allowedOrigin)
         fired == callbackEvents(observed, path)
     IN /\ inflight' = SubSeq(inflight, 1, k - 1) \o SubSeq(inflight, k + 1, Len(inflight))
        /\ pending' = IF pending = rq THEN 0 ELSE pending
        /\ readyState' = DONE
        /\ xhrError' = CASE path = "abort" -> "ABORT_ERR"
                         [] path = "timeout" -> "TIMEOUT_ERR"
                         [] path = "error" -> "NETWORK_ERR"
                         [] path = "cors" -> "SECURITY_ERR"
                         [] OTHER -> xhrError
        /\ response' = IF path = "load"
                       THEN <<[statusCode |-> 200, allowedOrigin |-> allowedOrigin, rq |-> rq]>>
                       ELSE response
        /\ observed' = [fired EXCEPT
             !.errors = IF path \in {"timeout", "error", "cors"} THEN Append(@, xhrError') ELSE @,
             !.raised = IF path = "cors" THEN Append(@, "SECURITY_ERR") ELSE @,
             !.steps = Append(@, [method |-> "callback", thrown |-> ""]),
             !.done = Append(@, [rq |-> rq, path |-> path, error |-> error,
                                 allowedOrigin |-> allowedOrigin,
                                 aborted |-> requests[rq].aborted,
                                 cors |-> cors,
                                 superseded |-> rq # Len(requests),
                                 again |-> \E d \in 1..Len(observed.done): observed.done[d].rq = rq,
                                 fired |-> SubSeq(fired.trace, Len(observed.trace) + 1, Len(fired.trace)),
                                 before |-> [readyState |-> readyState, xhrError |-> xhrError,
                                             response |-> response],
                                 readyState |-> readyState',
                                 response |-> response',
                                 xhrError |-> xhrError'])]
  /\ UNCHANGED <<requests, cors>>
  /\ UNCHANGED <<pvars, hvars, bvars, fvars>>

NextXHR ==
  \/ abort
  \/ \E input \in OpenInputs: open(input[1], input[2], input[3])
  \/ setRequestHeader("X-Token", "1")
  \/ send("data")
  \/ \E k \in 1..Len(inflight): \E outcome \in HttpOutcomes: httpCallback(k, outcome[1], outcome[2])

SpecXHR == Init /\ [][NextXHR]_vars

SpecHeaders == Init /\ [][NextHeaders]_vars

SpecBody == Init /\ [][NextBody]_vars

SpecFetch == Init /\ [][NextFetch]_vars

Next ==
  \/ \E handler \in CustomHandlers: addHandler(handler)
  \/ \E input \in RequestInputs: request(input[1], input[2], input[3], MaxRequests)
  \/ \E i \in 1..Len(fetch): nextRequestHandler(i)
  \/ \E i \in 1..Len(fetch): \E answer \in ServerResponses: transportComplete(i, answer)
  \/ \E i \in 1..Len(fetch): \E answer \in FileAnswers: fileComplete(i, answer)
  \/ \E i \in 1..Len(fetch): \E error \in TransportErrors: transportError(i, error)
  \/ \E i \in 1..Len(fetch): nextResponseHandler(i)
  \/ \E i \in 1..Len(fetch): decompressDone(i)
  \/ \E i \in 1..Len(fetch): redirectReturn(i)
  \/ \E i \in 1..Len(fetch): \E listenerThrows \in BOOLEAN: complete(i, listenerThrows)

Spec == Init /\ [][Next]_vars

\* What has to go on for a fetch to go on: a continuation that was called
\* runs the next handler, the transport calls back for every request it was
\* given, Zlib calls back, and the callback of a run is called when no
\* handler is left.
Continues(i) ==
  /\ i \in 1..Len(fetch)
  /\ \/ nextRequestHandler(i)
     \/ nextResponseHandler(i)
     \/ redirectReturn(i)
     \/ \E listenerThrows \in BOOLEAN: complete(i, listenerThrows)

TransportCallsBack(i) ==
  /\ i \in 1..Len(fetch)
  /\ \/ \E answer \in ServerResponses: transportComplete(i, answer)
     \/ \E answer \in FileAnswers: fileComplete(i, answer)
     \/ \E error \in TransportErrors: transportError(i, error)

ZlibCallsBack(i) == i \in 1..Len(fetch) /\ decompressDone(i)

Fairness ==
  \A i \in 1..MaxRequests:
    /\ WF_vars(Continues(i))
    /\ WF_vars(TransportCallsBack(i))
    /\ WF_vars(ZlibCallsBack(i))

\* The pipeline with every handler calling its continuation and the
\* transport completing every dispatched request.
SpecLive == Init /\ [][Next]_vars /\ Fairness

\* The answers of the server in SpecHistory: a page and a redirect.
HistoryResponses == {answer \in ServerResponses: answer[1] \in {200, 302} /\ answer[3] = "bytes"}

\* Several fetches in flight at once, with the default pipeline.
NextHistory ==
  \/ \E input \in HistoryInputs: request(input[1], input[2], input[3], MaxConcurrent)
  \/ \E i \in 1..Len(fetch): nextRequestHandler(i)
  \/ \E i \in 1..Len(fetch): \E answer \in HistoryResponses: transportComplete(i, answer)
  \/ \E i \in 1..Len(fetch): \E error \in TransportErrors: transportError(i, error)
  \/ \E i \in 1..Len(fetch): nextResponseHandler(i)
  \/ \E i \in 1..Len(fetch): redirectReturn(i)
  \/ \E i \in 1..Len(fetch): complete(i, FALSE)

SpecHistory == Init /\ [][NextHistory]_vars

\* ------------------------------------------------------------------ properties
IsPrefix(a, b) == Len(a) <= Len(b) /\ SubSeq(b, 1, Len(a)) = a

\* The handlers of one class among those registered, in registration order.
StageOf(pipe, arity) == SelectSeq(pipe, LAMBDA fn: Arity(fn) = arity)

\* The order the spec gives for one run over the handlers registered.
EffectiveOrder(pipe) == StageOf(pipe, 2) \o <<"makeHTTPRequest">> \o StageOf(pipe, 3)

Fetches == 1..Len(fetch)

Hops(i) == 1..Len(fetch[i].reqs)

IsShort(i, hop) == \E e \in fetch[i].short: e[1] = hop

Succeeded(i) == fetch[i].status = "done" /\ fetch[i].errAt = -1

\* C1: in every run of _runPipeline where no request handler supplied the
\* response, the handlers invoked so far are the beginning of: the request
\* handlers in registration order, makeHTTPRequest, the response handlers in
\* registration order; a run that ended without error invoked all of them;
\* the handlers added stand after the defaults; and a response handler is
\* invoked only once makeHTTPRequest was.
PipelineOrder ==
  /\ IsPrefix(DefaultPipeline, pipeline)
  /\ \A i \in Fetches: \A hop \in Hops(i):
       ~IsShort(i, hop) =>
         LET ran == RunLog(fetch[i], hop)
             pipe == fetch[i].pipes[hop]
         IN /\ IsPrefix(DefaultPipeline, pipe)
            /\ IsPrefix(ran, EffectiveOrder(pipe))
            /\ Succeeded(i) => ran = EffectiveOrder(pipe)
            /\ \A k \in 1..Len(ran):
                 Arity(ran[k]) = 3 => \E j \in 1..(k - 1): ran[j] = "makeHTTPRequest"

\* A fetch ended well whose run went through the defaults and a handler
\* added by addHandler, after a redirect.
PipelineOrderWitness ==
  \E i \in Fetches:
    /\ Succeeded(i)
    /\ fetch[i].short = {}
    /\ Len(fetch[i].reqs) = 2
    /\ Len(fetch[i].pipes[1]) > Len(DefaultPipeline)
    /\ Len(RunLog(fetch[i], 1)) = Len(fetch[i].pipes[1]) + 1

\* C2: once a request handler has supplied the response in a run, that run
\* invokes no request handler and no makeHTTPRequest any more, and the
\* handlers it invokes after are the response handlers in registration
\* order, all of them if the fetch ends without error.
ShortCircuit ==
  \A i \in Fetches: \A e \in fetch[i].short:
    LET ran == RunLog(fetch[i], e[1])
        after == SubSeq(ran, e[2] + 1, Len(ran))
        pipe == fetch[i].pipes[e[1]]
    IN /\ \A k \in 1..Len(ran): ran[k] # "makeHTTPRequest"
       /\ \A k \in 1..Len(after): Arity(after[k]) = 3
       /\ IsPrefix(after, StageOf(pipe, 3))
       /\ Succeeded(i) => after = StageOf(pipe, 3)

\* A fetch ended well in which the handler added by a test supplied the
\* response while request handlers (and the transport) were still to run.
ShortCircuitWitness ==
  \E i \in Fetches: \E e \in fetch[i].short:
    /\ Succeeded(i)
    /\ history[i].response # NoRes
    /\ RunLog(fetch[i], e[1])[e[2]] \in {"reqA", "reqB"}
    /\ Len(RunLog(fetch[i], e[1])) > e[2]

\* C3: once a handler has reported an error or thrown, no handler of that
\* fetch is invoked any more, the fetch is over and rejected with that
\* error, and its record holds the error and no response.
ErrorAborts ==
  \A i \in Fetches:
    fetch[i].errAt # -1 =>
      /\ Len(fetch[i].log) = fetch[i].errAt
      /\ fetch[i].status = "done"
      /\ fetch[i].settled = "rejected"
      /\ history[i].error = fetch[i].reported
      /\ history[i].error # NoErr
      /\ history[i].response = NoRes

\* A response handler failed after the response had arrived, with
\* response handlers still to run.
ErrorAbortsWitness ==
  \E i \in Fetches:
    /\ fetch[i].errAt # -1
    /\ fetch[i].log[fetch[i].errAt][2] \in {"handleResponse", "decompressBody", "resA", "resB"}
    /\ history[i].error = fetch[i].reported

\* C4: a record of the history holds a response or an error, never both,
\* and the callback of request() assigns it at most once.
FinalizedOnce ==
  \A i \in 1..Len(history):
    /\ ~(history[i].response # NoRes /\ history[i].error # NoErr)
    /\ history[i].assigned <= 1

\* C5: the history holds one record per request() call, the i-th record
\* being the one of the i-th call, whatever hops the fetches made and in
\* whatever order they ended; a step that is not a request() call leaves
\* the records where they are.
HistoryOrder ==
  /\ Len(history) = Len(fetch)
  /\ \A i \in 1..Len(history): history[i].call = i

\* The second fetch is over while the first, which followed a redirect, is
\* still waiting for the transport.
HistoryOrderWitness ==
  /\ Len(history) = 2
  /\ fetch[2].status = "done"
  /\ fetch[1].status = "io"
  /\ Len(fetch[1].reqs) = 2

\* The redirect rule as the spec words it.
Eligible(statusCode, method) ==
  \/ statusCode \in {301, 307} /\ method \in {"GET", "HEAD"}
  \/ statusCode \in {302, 303}

IsHTTP(proto) == proto \in {"http:", "https:"}

Handled(i) == {fetch[i].handled[k] : k \in 1..Len(fetch[i].handled)}

\* C6: a fetch that followed k redirects and got a response resolves with
\* redirects = k and the URL of the last hop.
RedirectCount ==
  \A i \in Fetches:
    history[i].response # NoRes =>
      /\ history[i].response.redirects = Len(fetch[i].reqs) - 1
      /\ history[i].response.url = fetch[i].reqs[Len(fetch[i].reqs)].url

\* C7, as claimed: handleResponse follows a redirect exactly when the
\* status and the method make the response eligible.
RedirectExactlyWhenEligible ==
  \A i \in Fetches: \A e \in Handled(i):
    e.kind = "redirect" <=> Eligible(e.statusCode, e.method)

\* C7, amended: handleResponse follows a redirect exactly when the request
\* URL is HTTP(S), the status and the method make the response eligible and
\* fewer than maxRedirects redirects were followed; a response that is not
\* eligible is passed on and no further request is made.
RedirectWhenAllowed ==
  \A i \in Fetches: \A e \in Handled(i):
    /\ e.kind = "redirect" <=>
         (Eligible(e.statusCode, e.method) /\ IsHTTP(e.proto) /\ e.prior < maxRedirects)
    /\ ~Eligible(e.statusCode, e.method) =>
         (e.kind = "next" /\ Len(fetch[i].reqs) = e.hop)

\* A POST answered 301 or 307 was taken as the final response and a GET
\* answered 301 was followed.
RedirectWhenAllowedWitness ==
  \E i \in Fetches: \E e \in Handled(i):
    /\ e.statusCode \in {301, 307}
    /\ e.method = "POST"
    /\ e.kind = "next"
    /\ Succeeded(i)

\* C8: the request of a 301 or 307 redirect keeps the method of the request
\* redirected, the one of a 302 or 303 redirect is a GET.
RedirectMethod ==
  \A i \in Fetches: \A e \in Handled(i):
    e.kind = "redirect" =>
      fetch[i].reqs[e.hop + 1].method =
        IF e.statusCode \in {301, 307} THEN e.method ELSE "GET"

\* C9: a fetch follows at most maxRedirects redirects: up to there an
\* eligible response of an HTTP(S) request is followed, and the next one
\* fails the fetch with the too-many-redirects error, no request being made
\* for it.
RedirectLimit ==
  \A i \in Fetches:
    /\ Len(fetch[i].reqs) - 1 <= maxRedirects
    /\ \A e \in Handled(i):
         (Eligible(e.statusCode, e.method) /\ IsHTTP(e.proto)) =>
           IF e.prior < maxRedirects
           THEN e.kind = "redirect"
           ELSE /\ e.kind = "error"
                /\ fetch[i].status = "done"
                /\ history[i].error = "Too many redirects"
                /\ history[i].response = NoRes
                /\ Len(fetch[i].reqs) = e.hop
                /\ fetch[i].log[Len(fetch[i].log)] = <<e.hop, "handleResponse">>

\* With a maximum of 2, the third redirect response of a chain failed the
\* fetch.
RedirectLimitWitness ==
  /\ maxRedirects = 2
  /\ \E i \in Fetches:
       /\ Len(fetch[i].reqs) = 3
       /\ Len(fetch[i].handled) = 3
       /\ history[i].error = "Too many redirects"

\* C10: readyState never goes down, but for the reset to UNSENT of an
\* abort before send.
ReadyStateMonotonic ==
  LET assigned == <<<<UNSENT, "new">>>> \o observed.states
  IN \A k \in 1..(Len(assigned) - 1):
       \/ assigned[k + 1][1] >= assigned[k][1]
       \/ assigned[k + 1] = <<UNSENT, "abort">>

RequestHeaderWins ==
  \A i \in Fetches: \A w \in 1..Len(fetch[i].wire):
    LET given == HeadersNew(fetch[i].options.headers)
    IN \A k \in 1..Len(given):
         HeadersHas(HeadersNew(BrowserHeaders), given[k][1]) =>
           <<given[k][1], given[k][2]>> \in fetch[i].wire[w].headers

\* C25: a POST or PUT with params and no body reaches the transport with a
\* body or a multipart list made of the params.
ParamsNotDropped ==
  \A i \in Fetches: \A w \in 1..Len(fetch[i].wire):
    ( /\ fetch[i].wire[w].hop = 1
      /\ fetch[i].wire[w].method \in {"POST", "PUT"}
      /\ fetch[i].options.params # NoParams )
    => \/ fetch[i].wire[w].body = fetch[i].options.params
       \/ fetch[i].wire[w].multipart

\* C26: decodeBody is invoked on a response only after decompressBody was
\* invoked on it, and never on a body that is still compressed.
DecompressBeforeDecode ==
  \A i \in Fetches: \A k \in 1..Len(fetch[i].applied):
    LET a == fetch[i].applied
    IN a[k].handler = "decodeBody" =>
         /\ a[k].body \notin {"gz", "deflated"}
         /\ \E j \in 1..(k - 1): a[j].handler = "decompressBody" /\ a[j].origin = a[k].origin

\* decodeBody was given the gunzipped body of the response of a redirect hop.
DecompressBeforeDecodeWitness ==
  \E i \in Fetches: \E k \in 1..Len(fetch[i].applied):
    /\ fetch[i].applied[k].handler = "decodeBody"
    /\ fetch[i].applied[k].origin = 2
    /\ fetch[i].applied[k].encoding = "gzip"
    /\ fetch[i].applied[k].body = "bytes"

\* C27: in a fetch that ended well each response handler after
\* handleResponse was invoked exactly once on the final response.
AppliedOnce ==
  \A i \in Fetches:
    Succeeded(i) =>
      \A h \in {"decompressBody", "decodeBody", "resA", "resB"}:
        (\E k \in 1..Len(fetch[i].pipes[1]): fetch[i].pipes[1][k] = h) =>
          Cardinality({k \in 1..Len(fetch[i].applied):
                         /\ fetch[i].applied[k].handler = h
                         /\ fetch[i].applied[k].origin = fetch[i].origin}) = 1

\* ------------------------------------------------------------------ XMLHttpRequest properties
Last(seq) == seq[Len(seq)]

Completions == {observed.done[d]: d \in 1..Len(observed.done)}

\* The last call was abort(), and it came straight after another abort()
\* or with no open() before it.
AbortedTwiceOrUnopened ==
  LET steps == observed.steps
      n == Len(steps)
  IN /\ n >= 1
     /\ steps[n].method = "abort"
     /\ \/ n >= 2 /\ steps[n - 1].method = "abort"
        \/ \A k \in 1..n: steps[k].method # "open"

\* C11: abort() called twice in succession, or before any open(), raises
\* nothing and leaves readyState at UNSENT.
AbortNeverRaises ==
  AbortedTwiceOrUnopened => Last(observed.steps).thrown = "" /\ readyState = UNSENT

\* C12: the completion of a request that was aborted after send() takes the
\* instance to DONE and fires progress then abort, and nothing else, whatever
\* the transport gave; the response of that request is not stored, and while
\* the request is still the last one opened no response is exposed at all.
AbortedCompletion ==
  \A d \in Completions:
    d.aborted =>
      /\ d.fired = <<Ev("readystatechange", DONE), Ev("progress", DONE), Ev("abort", DONE)>>
      /\ d.xhrError = "ABORT_ERR"
      /\ \A r \in 1..Len(d.response): d.response[r].rq # d.rq
      /\ ~d.superseded => d.response = <<>>

\* abort() after send(), then the transport delivers a response.
AbortedCompletionWitness ==
  /\ \E k \in 1..Len(observed.steps): observed.steps[k] = [method |-> "abort", thrown |-> ""]
  /\ \E d \in Completions: d.aborted /\ ~d.superseded /\ d.error = ""

\* The completion is a success: not aborted, no transport error, and the
\* origin check of the callback, if it applies, accepts the response.
Accepted(d) ==
  /\ ~d.aborted
  /\ d.error = ""
  /\ d.cors = <<>> \/ d.allowedOrigin \in {<<"*">>, d.cors}

\* C13: a successful completion assigns HEADERS_RECEIVED, LOADING and DONE in
\* that order, fires one readystatechange after each, and only then fires
\* progress, load and loadend, in that order.
SuccessOrder ==
  \A d \in Completions:
    Accepted(d) =>
      d.fired = <<Ev("readystatechange", HEADERS_RECEIVED), Ev("readystatechange", LOADING),
                  Ev("readystatechange", DONE), Ev("progress", DONE), Ev("load", DONE),
                  Ev("loadend", DONE)>>

\* A cross-origin request whose response names the origin of the page.
SuccessOrderWitness ==
  \E d \in Completions: Accepted(d) /\ d.cors # <<>> /\ d.allowedOrigin = d.cors

\* C14: the last event of every completion of a sent request is loadend.
LoadendLast ==
  \A d \in Completions: Last(d.fired).event = "loadend"

\* The URL of the request differs from the location of the document in
\* scheme, host or port.
CrossOrigin(url) == url.protocol # Location.protocol \/ url.host # <<Location.host>>

\* C15: a request opened with a cross-origin URL whose response has an
\* Access-Control-Allow-Origin that is neither '*' nor the origin of the page
\* ends in error: error fired, load not fired, no response stored, the
\* error raised to the document.
CorsRejection ==
  \A d \in Completions:
    ( /\ CrossOrigin(requests[d.rq].url)
      /\ ~d.aborted
      /\ d.error = ""
      /\ d.allowedOrigin \notin {<<"*">>, originOf} )
    => /\ \E e \in 1..Len(d.fired): d.fired[e].event = "error"
       /\ \A e \in 1..Len(d.fired): d.fired[e].event # "load"
       /\ d.response = <<>>
       /\ d.xhrError = "SECURITY_ERR"
       /\ observed.raised # <<>>

\* C16: open() marks the request cross-origin exactly when its URL differs
\* from the location of the document in scheme, host or port.
CrossOriginFlag ==
  \A rq \in 1..Len(requests):
    ObjectHas(requests[rq].headers, "origin") <=> CrossOrigin(requests[rq].url)

\* C17: setRequestHeader() and send() called while readyState is not OPENED
\* throw the invalid-state error, fire no event, dispatch nothing and leave
\* readyState and the pending request as they were.
InvalidStateThrows ==
  [][ ( /\ Len(observed'.steps) = Len(observed.steps) + 1
        /\ Last(observed'.steps).method \in {"setRequestHeader", "send"}
        /\ readyState # OPENED )
      => /\ Last(observed'.steps).thrown = "INVALID_STATE_ERR"
         /\ observed'.events = observed.events
         /\ UNCHANGED <<readyState, pending, requests, inflight>> ]_vars

\* send() was refused after the request had completed.
InvalidStateThrowsWitness ==
  /\ readyState = DONE
  /\ observed.steps # <<>>
  /\ Last(observed.steps) = [method |-> "send", thrown |-> "INVALID_STATE_ERR"]

\* C28: the origin test applies only to a request that its own open()
\* marked cross-origin: a request opened same-origin that is not aborted
\* and gets a response ends in load, whatever the response allows.
CorsOnlyOwnRequest ==
  \A d \in Completions:
    ( /\ ~ObjectHas(requests[d.rq].headers, "origin")
      /\ ~d.aborted
      /\ d.error = "" )
    => /\ \E e \in 1..Len(d.fired): d.fired[e].event = "load"
       /\ \A e \in 1..Len(d.fired): d.fired[e].event # "error"

\* C29: the completion of a request that a later open() has superseded
\* leaves readyState, the error and the response of the instance as they
\* were.
SupersededCompletionSilent ==
  \A d \in Completions:
    d.superseded =>
      /\ d.readyState = d.before.readyState
      /\ d.xhrError = d.before.xhrError
      /\ d.response = d.before.response

\* The times the transport was given request rq: those in flight and those
\* completed.
Dispatches(rq) ==
  Cardinality({k \in 1..Len(inflight): inflight[k] = rq})
    + Cardinality({d \in 1..Len(observed.done): observed.done[d].rq = rq})

\* C30: the request of one open() is given to the transport at most once,
\* and at most one request that is not aborted is in flight.
OneDispatchPerOpen ==
  /\ \A rq \in 1..Len(requests): Dispatches(rq) <= 1
  /\ Cardinality({k \in 1..Len(inflight): ~requests[inflight[k]].aborted}) <= 1

\* ------------------------------------------------------------------ Headers properties
\* The positions of pairs whose name is ci.
Matches(pairs, ci) == {k \in 1..Len(pairs): pairs[k][1] = ci}

\* The pairs with a name other than ci, in order.
Others(pairs, ci) == SelectSeq(pairs, LAMBDA h: h[1] # ci)

Min(S) == CHOOSE k \in S: \A j \in S: k <= j

NoCRLF ==
  \A k \in 1..Len(hdrs): \A c \in 1..Len(hdrs[k][2]): hdrs[k][2][c] \notin {CR, LF}

\* ------------------------------------------------------------------ Body properties
\* C20: the first accessor call on a Body sets bodyUsed, whether or not the
\* call fails; every later accessor call on it fails with the error of a
\* body already used; bodyUsed of a Body never goes back to false.
BodyUsedOnce ==
  /\ [](/\ accessed # <<>> => bodyUsed
        /\ \A k \in 1..Len(accessed):
             IF k = 1
             THEN /\ ~accessed[k].usedBefore
                  /\ accessed[k].usedAfter
                  /\ accessed[k].outcome # "Body already consumed"
             ELSE accessed[k].outcome = "Body already consumed")
  /\ [][bodyUsed /\ bodyId' = bodyId => bodyUsed']_vars

\* formData() on a text body failed, and the text() after it was refused.
BodyUsedOnceWitness ==
  /\ Len(accessed) = 2
  /\ bstream.bytes = <<"text">>
  /\ accessed[1].accessor = "formData" /\ accessed[1].outcome = "TypeError"
  /\ accessed[2].accessor = "text" /\ accessed[2].outcome = "Body already consumed"
  /\ bodyUsed

\* ------------------------------------------------------------------ Request and Response properties
\* C21: of the text() calls on objects that share one stream, every one
\* after the first that consumed it fails with the error of a body already
\* consumed.
SharedSourceOnce ==
  \A a \in 1..Len(reads): \A b \in (a + 1)..Len(reads):
    (/\ reads[a].stream # 0
     /\ reads[a].stream = reads[b].stream
     /\ reads[a].outcome # "Body already consumed") =>
      reads[b].outcome = "Body already consumed"

\* C22: every Request made with method GET or HEAD has no stream, whether
\* the body was given as init.body or came with the input Request.
GetHasNoBody ==
  \A k \in 1..Len(objects):
    (objects[k].class = "Request" /\ objects[k].method \in {"GET", "HEAD"}) =>
      objects[k].stream = 0

\* ------------------------------------------------------------------ XMLHttpRequest properties, continued
\* C31: open() with a supported method and an HTTP(S) URL, called when
\* readyState is DONE and no request is pending, raises nothing, moves the
\* instance to OPENED and leaves it with no response and no error, so that
\* status, statusText and responseText are null.
ReopenAfterDone ==
  [][\A input \in OpenInputs:
       ( /\ readyState = DONE
         /\ pending = 0
         /\ input[3]
         /\ openError(input[1], input[2]) = ""
         /\ open(input[1], input[2], input[3]) )
       => /\ observed'.thrown = ""
          /\ readyState' = OPENED
          /\ response' = <<>>
          /\ xhrError' = ""]_vars

\* ------------------------------------------------------------------ termination
\* The record of request() call i holds a response or an error and the
\* promise of the call is settled.
Finalized(i) ==
  /\ Len(fetch) >= i
  /\ fetch[i].settled # "pending"
  /\ history[i].response # NoRes \/ history[i].error # NoErr

\* C32: every request() call is eventually finalized with a response or an
\* error, whatever the server answers, redirects on every hop included.
EventuallyFinalized ==
  \A i \in 1..MaxRequests: (Len(fetch) >= i) ~> Finalized(i)

\* A fetch the server answered with a redirect on every hop, as many hops
\* as the maximum allows and one more response, is finalized with the error.
EventuallyFinalizedWitness ==
  /\ maxRedirects = 1
  /\ \E i \in Fetches:
       /\ Finalized(i)
       /\ Len(fetch[i].reqs) = 2
       /\ \A e \in 1..Len(fetch[i].handled): fetch[i].handled[e].kind \in {"redirect", "error"}
       /\ Len(fetch[i].handled) = 2
       /\ fetch[i].settled = "rejected"
       /\ history[i].error = "Too many redirects"

====
